---------------------------- MODULE Spec2Model ----------------------------
(***************************************************************************)
(* Model of kitty/options_types.py: the compiler from "map" and            *)
(* "mouse_map" directives to KeyDefinition / MouseMapping records.         *)
(*                                                                         *)
(* A Python str is a sequence of one-character strings, so that split,     *)
(* strip, upper, startswith, endswith, ord and int(.., 16) are computed    *)
(* character by character.  The two glyphs of mod_map and the backquote,   *)
(* which the TLA+ lexer cannot read inside a string, are written as the    *)
(* one-character atoms "u2318", "u2325" and "u0060".                       *)
(* An Optional[int] is [kind |-> "val", val |-> n] or [kind |-> "none"];   *)
(* the outcome of a call is a record of kind "ok", "none" or "raise".      *)
(* The log_error calls of a call are collected in the order made.          *)
(***************************************************************************)
EXTENDS Integers, Sequences, FiniteSets, TLC

VARIABLES
  hist,   \* the calls made for the current directive line, oldest first
  ret,    \* the outcome of the last call of a parse entry point
  out,    \* the KeyDefinition / MouseMapping objects yielded for the line
  pre,    \* out as it was before the last resolve / resolve_kitten_aliases
  log     \* the log_error calls of the last call

vars == <<hist, ret, out, pre, log>>

---------------------------------------------------------------------------
(* Bounds of the model *)

\* modifier tokens in front of the key token of one generated shortcut
MaxMods == 2
\* '>'-separated segments of one generated shortcut field
MaxSegs == 2
\* resolve / resolve_kitten_aliases calls applied to the objects of one line
MaxSteps == 2

---------------------------------------------------------------------------
(* Python str and int primitives *)

\* body applied to the value of e, with e evaluated once (Python evaluates an
\* assigned expression once; a LET definition is evaluated at every use)
With(e, body(_)) == CHOOSE v \in {body(x) : x \in {e}} : TRUE

AsciiPrintable ==
  <<" ", "!", "\"", "#", "$", "%", "&", "'", "(", ")", "*", "+", ",", "-", ".", "/",
    "0", "1", "2", "3", "4", "5", "6", "7", "8", "9", ":", ";", "<", "=", ">", "?",
    "@", "A", "B", "C", "D", "E", "F", "G", "H", "I", "J", "K", "L", "M", "N", "O",
    "P", "Q", "R", "S", "T", "U", "V", "W", "X", "Y", "Z", "[", "\\", "]", "^", "_",
    "u0060", "a", "b", "c", "d", "e", "f", "g", "h", "i", "j", "k", "l", "m", "n", "o",
    "p", "q", "r", "s", "t", "u", "v", "w", "x", "y", "z", "{", "|", "}", "~">>

IndexOf(seq, c) == CHOOSE i \in 1..Len(seq) : seq[i] = c

Occurs(seq, c) == \E i \in 1..Len(seq) : seq[i] = c

\* ord(c) of one character
ord_char(c) ==
  IF c = "\t" THEN 9
  ELSE IF c = "u2318" THEN 8984
  ELSE IF c = "u2325" THEN 8997
  ELSE 31 + IndexOf(AsciiPrintable, c)

upper_char(c) ==
  LET o == ord_char(c) IN IF o >= 97 /\ o <= 122 THEN AsciiPrintable[o - 32 - 31] ELSE c

lower_char(c) ==
  LET o == ord_char(c) IN IF o >= 65 /\ o <= 90 THEN AsciiPrintable[o + 32 - 31] ELSE c

\* str.upper(), str.lower()
upper(s0) == With(s0, LAMBDA s : [i \in 1..Len(s) |-> upper_char(s[i])])

lower(s0) == With(s0, LAMBDA s : [i \in 1..Len(s) |-> lower_char(s[i])])

isspace(c) == c \in {" ", "\t"}

startswith(s0, p) == With(s0, LAMBDA s : Len(s) >= Len(p) /\ SubSeq(s, 1, Len(p)) = p)

endswith(s0, p) ==
  With(s0, LAMBDA s : Len(s) >= Len(p) /\ SubSeq(s, Len(s) - Len(p) + 1, Len(s)) = p)

RECURSIVE lstrip_if(_, _)
\* the longest suffix of s whose first character is not in the set cs
lstrip_if(s0, cs) ==
  With(s0, LAMBDA s : IF s # <<>> /\ Head(s) \in cs THEN lstrip_if(Tail(s), cs) ELSE s)

RECURSIVE rstrip_if(_, _)
rstrip_if(s0, cs) ==
  With(s0, LAMBDA s :
    IF s # <<>> /\ s[Len(s)] \in cs THEN rstrip_if(SubSeq(s, 1, Len(s) - 1), cs) ELSE s)

\* str.strip() and str.rstrip() (whitespace), str.strip(chars)
strip(s) == rstrip_if(lstrip_if(s, {" ", "\t"}), {" ", "\t"})

rstrip(s) == rstrip_if(s, {" ", "\t"})

strip_chars(s, c) == rstrip_if(lstrip_if(s, {c}), {c})

RECURSIVE split(_, _)
\* str.split(sep) for a one-character separator: empty pieces are kept
split(s0, sep) ==
  With(s0, LAMBDA s :
    IF ~Occurs(s, sep) THEN <<s>>
    ELSE With(CHOOSE k \in 1..Len(s) : s[k] = sep /\ \A j \in 1..(k - 1) : s[j] # sep,
              LAMBDA i : <<SubSeq(s, 1, i - 1)>> \o split(SubSeq(s, i + 1, Len(s)), sep)))

RECURSIVE split_ws(_, _)
\* str.split(maxsplit=n): runs of whitespace separate, at most n splits, the
\* remainder after the n-th split keeps its trailing whitespace
split_ws(s, maxsplit) ==
  With(lstrip_if(s, {" ", "\t"}), LAMBDA t :
    IF t = <<>> THEN <<>>
    ELSE IF maxsplit = 0 THEN <<t>>
    ELSE With(IF \E k \in 1..Len(t) : isspace(t[k])
              THEN (CHOOSE k \in 1..Len(t) : isspace(t[k]) /\ \A j \in 1..(k - 1) : ~isspace(t[j])) - 1
              ELSE Len(t),
              LAMBDA n : <<SubSeq(t, 1, n)>> \o split_ws(SubSeq(t, n + 1, Len(t)), maxsplit - 1)))

RECURSIVE join(_, _)
\* sep.join(pieces)
join(pieces0, sep) ==
  With(pieces0, LAMBDA pieces :
    IF pieces = <<>> THEN <<>>
    ELSE IF Len(pieces) = 1 THEN pieces[1]
    ELSE pieces[1] \o sep \o join(Tail(pieces), sep))

RECURSIVE BitOr(_, _)
\* a | b on non-negative ints
BitOr(a, b) ==
  IF a = 0 THEN b
  ELSE IF b = 0 THEN a
  ELSE (IF a % 2 = 1 \/ b % 2 = 1 THEN 1 ELSE 0) + 2 * BitOr(a \div 2, b \div 2)

RECURSIVE BitAnd(_, _)
\* a & b on non-negative ints
BitAnd(a, b) ==
  IF a = 0 \/ b = 0 THEN 0
  ELSE (IF a % 2 = 1 /\ b % 2 = 1 THEN 1 ELSE 0) + 2 * BitAnd(a \div 2, b \div 2)

HexDigits == <<"0", "1", "2", "3", "4", "5", "6", "7", "8", "9", "a", "b", "c", "d", "e", "f">>

IsHexDigit(c) == Occurs(HexDigits, lower_char(c))

RECURSIVE hex_digits_value(_, _)
\* the digits part of a hex literal, (["_"] hexdigit)*, read left to right;
\* -1 when it is not of that form
hex_digits_value(d0, acc0) ==
  With(<<d0, acc0>>, LAMBDA a :
    LET d == a[1]
        acc == a[2]
    IN IF d = <<>> THEN acc
       ELSE IF Head(d) = "_"
            THEN IF Len(d) >= 2 /\ IsHexDigit(d[2])
                 THEN hex_digits_value(SubSeq(d, 3, Len(d)),
                                       16 * acc + IndexOf(HexDigits, lower_char(d[2])) - 1)
                 ELSE -1
       ELSE IF IsHexDigit(Head(d))
            THEN hex_digits_value(Tail(d), 16 * acc + IndexOf(HexDigits, lower_char(Head(d))) - 1)
       ELSE -1)

\* int(q, 16) for a q that starts with '0x': the value, or -1 for ValueError
int16(q) ==
  With(SubSeq(q, 3, Len(q)), LAMBDA d : IF d = <<>> THEN -1 ELSE hex_digits_value(d, 0))

None == [kind |-> "none"]

Some(v) == [kind |-> "val", val |-> v]

\* Python's `x or 0` for an Optional[int]
or0(x) == IF x.kind = "val" THEN x.val ELSE 0

LogEntry(msg, text) == [msg |-> msg, text |-> text]

---------------------------------------------------------------------------
(* Constant tables of the collaborators (kitty.fast_data_types, key_names) *)

\* getattr(defines, name): the attributes the parser looks up
defines ==
  (<<"G", "L", "F", "W", "_", "M", "O", "D", "_", "S", "H", "I", "F", "T">> :> 1)
  @@ (<<"G", "L", "F", "W", "_", "M", "O", "D", "_", "A", "L", "T">> :> 2)
  @@ (<<"G", "L", "F", "W", "_", "M", "O", "D", "_", "C", "O", "N", "T", "R", "O", "L">> :> 4)
  @@ (<<"G", "L", "F", "W", "_", "M", "O", "D", "_", "S", "U", "P", "E", "R">> :> 8)
  @@ (<<"G", "L", "F", "W", "_", "M", "O", "D", "_", "K", "I", "T", "T", "Y">> :> 256)
  @@ (<<"G", "L", "F", "W", "_", "F", "K", "E", "Y", "_", "E", "S", "C", "A", "P", "E">> :> 57344)
  @@ (<<"G", "L", "F", "W", "_", "F", "K", "E", "Y", "_", "E", "N", "T", "E", "R">> :> 57345)
  @@ (<<"G", "L", "F", "W", "_", "M", "O", "U", "S", "E", "_", "B", "U", "T", "T", "O", "N", "_", "1">> :> 0)
  @@ (<<"G", "L", "F", "W", "_", "M", "O", "U", "S", "E", "_", "B", "U", "T", "T", "O", "N", "_", "2">> :> 1)
  @@ (<<"G", "L", "F", "W", "_", "M", "O", "U", "S", "E", "_", "B", "U", "T", "T", "O", "N", "_", "3">> :> 2)
  @@ (<<"G", "L", "F", "W", "_", "M", "O", "U", "S", "E", "_", "B", "U", "T", "T", "O", "N", "_", "4">> :> 3)

GLFW_MOD_KITTY == defines[<<"G", "L", "F", "W", "_", "M", "O", "D", "_", "K", "I", "T", "T", "Y">>]

\* defines.resolve_key_mods(kitty_mod, mods): the placeholder bit is replaced
\* by the bits of kitty_mod
resolve_key_mods(kitty_mod, mods) ==
  IF BitAnd(mods, GLFW_MOD_KITTY) # 0
  THEN BitOr(mods - GLFW_MOD_KITTY, kitty_mod)
  ELSE mods

character_key_name_aliases ==
  (<<"S", "P", "A", "C", "E">> :> <<" ">>)
  @@ (<<"P", "L", "U", "S">> :> <<"+">>)
  @@ (<<"M", "I", "N", "U", "S">> :> <<"-">>)

functional_key_name_aliases ==
  (<<"E", "S", "C">> :> <<"E", "S", "C", "A", "P", "E">>)
  @@ (<<"R", "E", "T", "U", "R", "N">> :> <<"E", "N", "T", "E", "R">>)

\* get_key_name_lookup()(name, False): a native key code or None
key_name_lookup(name) ==
  IF name = <<"a", "t">> THEN Some(64) ELSE None

---------------------------------------------------------------------------
(* Module-level tables of options_types.py *)

mod_map ==
  (<<"C", "T", "R", "L">> :> <<"C", "O", "N", "T", "R", "O", "L">>)
  @@ (<<"C", "M", "D">> :> <<"S", "U", "P", "E", "R">>)
  @@ (<<"u2318">> :> <<"S", "U", "P", "E", "R">>)
  @@ (<<"u2325">> :> <<"A", "L", "T">>)
  @@ (<<"O", "P", "T", "I", "O", "N">> :> <<"A", "L", "T">>)
  @@ (<<"K", "I", "T", "T", "Y", "_", "M", "O", "D">> :> <<"K", "I", "T", "T", "Y">>)

\* dict.get(key, default)
dict_get(d, key0, default) ==
  With(key0, LAMBDA key : IF key \in DOMAIN d THEN d[key] ELSE default)

character_key_name_aliases_with_ascii_lowercase ==
  [k \in {<<AsciiPrintable[i]>> : i \in 34..59} |-> lower(k)] @@ character_key_name_aliases

sequence_sep == ">"

KeyAction(func, args) == [func |-> func, args |-> args]

SingleKey(mods, is_native, key) == [mods |-> mods, is_native |-> is_native, key |-> key]

---------------------------------------------------------------------------
(* parse_mods, to_modifiers, parse_shortcut *)

map_mod(m) == dict_get(mod_map, m, m)

RECURSIVE parse_mods_loop_skip_none(_, _, _)
\* mutation of parse_mods_loop: a NONE token adds no bits and the loop goes on
parse_mods_loop_skip_none(parts0, sc, mods0) ==
  With(<<parts0, mods0>>, LAMBDA a :
    LET parts == a[1]
        mods == a[2]
    IN IF parts = <<>> THEN [ret |-> Some(mods), log |-> <<>>]
       ELSE LET m == Head(parts) IN
            With(<<"G", "L", "F", "W", "_", "M", "O", "D", "_">> \o map_mod(upper(m)), LAMBDA attr :
              IF attr \in DOMAIN defines
              THEN parse_mods_loop_skip_none(Tail(parts), sc, BitOr(mods, defines[attr]))
              ELSE IF upper(m) = <<"N", "O", "N", "E">>
                   THEN parse_mods_loop_skip_none(Tail(parts), sc, mods)
                   ELSE [ret |-> None,
                         log |-> <<LogEntry("Shortcut has unknown modifier, ignoring", sc)>>]))

RECURSIVE parse_mods_loop(_, _, _)
\* the for loop of parse_mods with `mods` accumulated so far
parse_mods_loop(parts0, sc, mods0) ==
  With(<<parts0, mods0>>, LAMBDA a :
    LET parts == a[1]
        mods == a[2]
    IN IF parts = <<>> THEN [ret |-> Some(mods), log |-> <<>>]
       ELSE LET m == Head(parts) IN
            With(<<"G", "L", "F", "W", "_", "M", "O", "D", "_">> \o map_mod(upper(m)), LAMBDA attr :
              IF attr \in DOMAIN defines
              THEN parse_mods_loop(Tail(parts), sc, BitOr(mods, defines[attr]))
              ELSE [ret |-> None,
                    log |-> IF upper(m) # <<"N", "O", "N", "E">>
                            THEN <<LogEntry("Shortcut has unknown modifier, ignoring", sc)>>
                            ELSE <<>>]))

parse_mods(parts, sc) == parse_mods_loop(parts, sc, 0)

to_modifiers(val) == or0(parse_mods(split(val, "+"), val).ret)

\* the key-spec part of parse_shortcut (lines 86-108): is_native and key of
\* the last '+'-piece
parse_key_spec(q0) ==
  With(dict_get(character_key_name_aliases_with_ascii_lowercase, upper(q0), q0), LAMBDA q :
    IF startswith(q, <<"0", "x">>)
    THEN With(int16(q), LAMBDA v :
           IF v < 0 THEN [is_native |-> FALSE, key |-> 0] ELSE [is_native |-> TRUE, key |-> v])
    ELSE IF Len(q) = 1 THEN [is_native |-> FALSE, key |-> ord_char(q[1])]
    ELSE With(<<"G", "L", "F", "W", "_", "F", "K", "E", "Y", "_">>
                \o dict_get(functional_key_name_aliases, upper(q), upper(q)), LAMBDA attr :
           IF attr \in DOMAIN defines
           THEN [is_native |-> FALSE, key |-> defines[attr]]
           ELSE With(or0(key_name_lookup(q)), LAMBDA key : [is_native |-> key > 0, key |-> key])))

\* mutation of parse_shortcut_mods: `if not mods: raise` is left out
parse_shortcut_mods_no_raise(parts, sc) ==
  IF Len(parts) > 1
  THEN With(parse_mods(SubSeq(parts, 1, Len(parts) - 1), sc), LAMBDA pm :
         [kind |-> "ok", mods |-> or0(pm.ret), log |-> pm.log])
  ELSE [kind |-> "ok", mods |-> 0, log |-> <<>>]

\* the modifier part of parse_shortcut (lines 81-85) for the '+'-pieces
\* `parts` of sc: the mask, or InvalidMods raised
parse_shortcut_mods(parts, sc) ==
  IF Len(parts) > 1
  THEN With(parse_mods(SubSeq(parts, 1, Len(parts) - 1), sc), LAMBDA pm :
         IF or0(pm.ret) = 0
         THEN [kind |-> "raise", exc |-> "InvalidMods", log |-> pm.log]
         ELSE [kind |-> "ok", mods |-> or0(pm.ret), log |-> pm.log])
  ELSE [kind |-> "ok", mods |-> 0, log |-> <<>>]

parse_shortcut(sc0) ==
  With(IF endswith(sc0, <<"+">>) /\ Len(sc0) > 1
       THEN SubSeq(sc0, 1, Len(sc0) - 1) \o <<"p", "l", "u", "s">>
       ELSE sc0, LAMBDA sc :
    With(split(sc, "+"), LAMBDA parts :
      With(parse_shortcut_mods(parts, sc), LAMBDA m :
        IF m.kind = "raise" THEN m
        ELSE With(parse_key_spec(parts[Len(parts)]), LAMBDA k :
               [kind |-> "ok", val |-> SingleKey(m.mods, k.is_native, k.key), log |-> m.log]))))

---------------------------------------------------------------------------
(* kitten_alias, parse_key_action, resolve_kitten_aliases *)

\* an element of KeyAction.args: a str or an int
StrArg(s) == [s |-> s]

IntArg(n) == [n |-> n]

\* kitten_alias(val): the (name, expansion) pairs it yields
kitten_alias(val) ==
  With(split_ws(val, 2), LAMBDA parts :
    IF Len(parts) >= 2 THEN <<[key |-> parts[1], expanded |-> Tail(parts)]>> ELSE <<>>)

RECURSIVE dec_digits_value(_, _)
dec_digits_value(d0, acc0) ==
  With(<<d0, acc0>>, LAMBDA a :
    LET d == a[1]
        acc == a[2]
    IN IF d = <<>> THEN acc
       ELSE IF ord_char(Head(d)) >= 48 /\ ord_char(Head(d)) <= 57
            THEN dec_digits_value(Tail(d), 10 * acc + ord_char(Head(d)) - 48)
       ELSE -1)

\* int(rest): [ok, n]
int10(rest) ==
  With(strip(rest), LAMBDA t :
    LET neg == t # <<>> /\ Head(t) = "-"
        d == IF t # <<>> /\ Head(t) \in {"-", "+"} THEN Tail(t) ELSE t
    IN With(IF d = <<>> THEN -1 ELSE dec_digits_value(d, 0), LAMBDA v :
         [ok |-> v >= 0, n |-> IF neg THEN 0 - v ELSE v]))

\* the keys of args_funcs, the registry filled by func_with_args
args_funcs == {<<"k", "i", "t", "t", "e", "n">>, <<"g", "o", "t", "o", "_", "t", "a", "b">>}

\* args_funcs[func](func, rest): the registered argument parser's outcome
args_parser(func, rest) ==
  IF func = <<"k", "i", "t", "t", "e", "n">>
  THEN With(split_ws(rest, 1), LAMBDA a :
         [kind |-> "ok", func |-> func, args |-> [i \in 1..Len(a) |-> StrArg(a[i])]])
  ELSE With(int10(rest), LAMBDA r :
         IF r.ok
         THEN [kind |-> "ok", func |-> func, args |-> <<IntArg(IF r.n < 0 THEN 0 ELSE r.n)>>]
         ELSE [kind |-> "raise", exc |-> "ValueError"])

\* mutation of parse_key_action_unregistered: the remainder is kept as one
\* opaque argument
parse_key_action_opaque(func, rest) ==
  [kind |-> "ok", val |-> KeyAction(func, <<StrArg(rest)>>), log |-> <<>>]

\* parse_key_action when args_funcs.get(func) is None: the final `return None`
parse_key_action_unregistered(func, rest) == [kind |-> "none", log |-> <<>>]

parse_key_action(action) ==
  With(split_ws(strip(action), 1), LAMBDA parts :
    IF parts = <<>> THEN [kind |-> "raise", exc |-> "IndexError", log |-> <<>>]
    ELSE LET func == parts[1] IN
         IF Len(parts) = 1 THEN [kind |-> "ok", val |-> KeyAction(func, <<>>), log |-> <<>>]
         ELSE LET rest == parts[2] IN
              IF func \in args_funcs
              THEN With(args_parser(func, rest), LAMBDA r :
                     IF r.kind = "raise"
                     THEN [kind |-> "none",
                           log |-> <<LogEntry("Ignoring invalid key action", action)>>]
                     ELSE [kind |-> "ok", val |-> KeyAction(r.func, r.args), log |-> <<>>])
              ELSE parse_key_action_unregistered(func, rest))

RECURSIVE kitten_aliases_loop(_, _, _, _)
\* the for loop of resolve_kitten_aliases over aliases.items()
kitten_aliases_loop(items0, kitten0, rest0, changed) ==
  With(<<items0, kitten0, rest0>>, LAMBDA a :
    LET items == a[1]
        kitten == a[2]
        rest == a[3]
    IN IF items = <<>> THEN [kitten |-> kitten, rest |-> rest, changed |-> changed]
       ELSE LET key == Head(items).key
                expanded == Head(items).expanded
            IN IF StrArg(key) = kitten
               THEN kitten_aliases_loop(Tail(items), StrArg(expanded[1]),
                                        IF Len(expanded) > 1
                                        THEN expanded[2] \o <<" ">> \o rest ELSE rest,
                                        TRUE)
               ELSE kitten_aliases_loop(Tail(items), kitten, rest, changed))

\* BaseDefinition.resolve_kitten_aliases: self after the call
resolve_kitten_aliases(self, aliases) ==
  IF self.action.args = <<>> THEN self
  ELSE LET kitten == self.action.args[1]
           rest == IF Len(self.action.args) > 1 THEN self.action.args[2].s ELSE <<>>
       IN With(kitten_aliases_loop(aliases, kitten, rest, FALSE), LAMBDA r :
            IF r.changed
            THEN [self EXCEPT !.action =
                    KeyAction(self.action.func, <<r.kitten, StrArg(rstrip(r.rest))>>)]
            ELSE self)

---------------------------------------------------------------------------
(* MouseMapping, KeyDefinition and their resolve *)

MouseMapping(button, mods, repeat_count, grabbed, action) ==
  [type |-> "mouse", button |-> button, mods |-> mods, repeat_count |-> repeat_count,
   grabbed |-> grabbed, action |-> action]

\* mutation of KeyDefinition: rest is left at its default ()
KeyDefinition_no_rest(is_sequence, action, mods, is_native, key, rest) ==
  [type |-> "key", is_sequence |-> is_sequence, action |-> action,
   trigger |-> SingleKey(mods, is_native, key), rest |-> <<>>]

KeyDefinition(is_sequence, action, mods, is_native, key, rest) ==
  [type |-> "key", is_sequence |-> is_sequence, action |-> action,
   trigger |-> SingleKey(mods, is_native, key), rest |-> rest]

MouseMapping_resolve(self, kitty_mod) ==
  [self EXCEPT !.mods = resolve_key_mods(kitty_mod, self.mods)]

\* the local function r of KeyDefinition.resolve
resolve_r(kitty_mod, k) ==
  SingleKey(resolve_key_mods(kitty_mod, k.mods), k.is_native, k.key)

\* mutation of KeyDefinition_resolve: only the head trigger is resolved
KeyDefinition_resolve_head_only(self, kitty_mod) ==
  [self EXCEPT !.trigger = resolve_r(kitty_mod, self.trigger)]

KeyDefinition_resolve(self, kitty_mod) ==
  [self EXCEPT !.trigger = resolve_r(kitty_mod, self.trigger),
               !.rest = [i \in 1..Len(self.rest) |-> resolve_r(kitty_mod, self.rest[i])]]

\* d.resolve(kitty_mod), dispatched on the class of d
resolve(self, kitty_mod) ==
  IF self.type = "key" THEN KeyDefinition_resolve(self, kitty_mod)
  ELSE MouseMapping_resolve(self, kitty_mod)
---------------------------------------------------------------------------
(* parse_map *)

\* mutation of parse_map_shortcut: no `except InvalidMods`
parse_map_shortcut_uncaught(part, sc) ==
  With(parse_shortcut(part), LAMBDA r :
    IF r.kind = "raise" THEN [kind |-> "raise", exc |-> r.exc, log |-> r.log]
    ELSE IF r.val.key = 0
         THEN [kind |-> "return",
               log |-> r.log \o <<LogEntry("Shortcut has unknown key, ignoring", sc)>>]
    ELSE [kind |-> "key", val |-> r.val, log |-> r.log])

\* mutation of parse_map_shortcut: no `if key == 0: return`
parse_map_shortcut_no_key_check(part, sc) ==
  With(parse_shortcut(part), LAMBDA r :
    IF r.kind = "raise"
    THEN IF r.exc = "InvalidMods" THEN [kind |-> "return", log |-> r.log]
         ELSE [kind |-> "raise", exc |-> r.exc, log |-> r.log]
    ELSE [kind |-> "key", val |-> r.val, log |-> r.log])

\* one shortcut of parse_map: try parse_shortcut, except InvalidMods return;
\* key == 0 logs and returns.  kind "key" carries the SingleKey, "return"
\* ends parse_map, "raise" is an exception the try does not catch
parse_map_shortcut(part, sc) ==
  With(parse_shortcut(part), LAMBDA r :
    IF r.kind = "raise"
    THEN IF r.exc = "InvalidMods" THEN [kind |-> "return", log |-> r.log]
         ELSE [kind |-> "raise", exc |-> r.exc, log |-> r.log]
    ELSE IF r.val.key = 0
         THEN [kind |-> "return",
               log |-> r.log \o <<LogEntry("Shortcut has unknown key, ignoring", sc)>>]
    ELSE [kind |-> "key", val |-> r.val, log |-> r.log])

RECURSIVE parse_map_loop(_, _, _, _, _)
\* the loop over sc.split(sequence_sep) with trigger, restl and the log so far
parse_map_loop(parts0, sc, trigger0, restl0, lg0) ==
  With(<<parts0, trigger0, restl0, lg0>>, LAMBDA a :
    LET parts == a[1]
        trigger == a[2]
        restl == a[3]
        lg == a[4]
    IN IF parts = <<>> THEN [kind |-> "done", trigger |-> trigger, rest |-> restl, log |-> lg]
       ELSE With(parse_map_shortcut(Head(parts), sc), LAMBDA r :
              IF r.kind # "key" THEN [r EXCEPT !.log = lg \o r.log]
              ELSE IF trigger = None
                   THEN parse_map_loop(Tail(parts), sc, Some(r.val), restl, lg \o r.log)
                   ELSE parse_map_loop(Tail(parts), sc, trigger, Append(restl, r.val), lg \o r.log)))

\* the tail of parse_map (lines 534-546): parse the action and yield
parse_map_yield(is_sequence, trigger, rest, action, lg) ==
  With(parse_key_action(action), LAMBDA pa :
    IF pa.kind = "raise"
    THEN [kind |-> "ok", out |-> <<>>,
          log |-> lg \o pa.log \o <<LogEntry("Invalid shortcut action. Ignoring.", action)>>]
    ELSE IF pa.kind = "none" THEN [kind |-> "ok", out |-> <<>>, log |-> lg \o pa.log]
    ELSE IF is_sequence
         THEN IF trigger # None
              THEN [kind |-> "ok",
                    out |-> <<KeyDefinition(TRUE, pa.val, trigger.val.mods, trigger.val.is_native,
                                            trigger.val.key, rest)>>,
                    log |-> lg \o pa.log]
              ELSE [kind |-> "ok", out |-> <<>>, log |-> lg \o pa.log]
         ELSE [kind |-> "ok",
               out |-> <<KeyDefinition(FALSE, pa.val, trigger.val.mods, trigger.val.is_native,
                                       trigger.val.key, <<>>)>>,
               log |-> lg \o pa.log])

\* parse_map(val): the KeyDefinitions it yields (out), its log_error calls
parse_map(val) ==
  With(split_ws(val, 1), LAMBDA parts :
    IF Len(parts) # 2 THEN [kind |-> "ok", out |-> <<>>, log |-> <<>>]
    ELSE With(<<strip_chars(strip(parts[1]), sequence_sep), strip(parts[2])>>, LAMBDA f :
      LET sc == f[1]
          action == f[2]
          is_sequence == Occurs(sc, sequence_sep)
      IN IF sc = <<>> \/ action = <<>> THEN [kind |-> "ok", out |-> <<>>, log |-> <<>>]
         ELSE With(IF is_sequence
                   THEN parse_map_loop(split(sc, sequence_sep), sc, None, <<>>, <<>>)
                   ELSE parse_map_loop(<<sc>>, sc, None, <<>>, <<>>), LAMBDA r :
                IF r.kind = "return" THEN [kind |-> "ok", out |-> <<>>, log |-> r.log]
                ELSE IF r.kind = "raise"
                     THEN [kind |-> "raise", exc |-> r.exc, out |-> <<>>, log |-> r.log]
                ELSE parse_map_yield(is_sequence, r.trigger, r.rest, action, r.log))))

---------------------------------------------------------------------------
(* parse_mouse_map *)

mouse_button_aliases ==
  (<<"l", "e", "f", "t">> :> <<"b", "1">>)
  @@ (<<"m", "i", "d", "d", "l", "e">> :> <<"b", "3">>)
  @@ (<<"r", "i", "g", "h", "t">> :> <<"b", "2">>)

mouse_event_counts ==
  (<<"d", "o", "u", "b", "l", "e", "c", "l", "i", "c", "k">> :> -3)
  @@ (<<"c", "l", "i", "c", "k">> :> -2)
  @@ (<<"r", "e", "l", "e", "a", "s", "e">> :> -1)
  @@ (<<"p", "r", "e", "s", "s">> :> 1)
  @@ (<<"d", "o", "u", "b", "l", "e", "p", "r", "e", "s", "s">> :> 2)
  @@ (<<"t", "r", "i", "p", "l", "e", "p", "r", "e", "s", "s">> :> 3)

grabbed_mode == <<"g", "r", "a", "b", "b", "e", "d">>

ungrabbed_mode == <<"u", "n", "g", "r", "a", "b", "b", "e", "d">>

\* frozenset(modes.lower().split(','))
specified_modes_of(modes) ==
  With(split(lower(modes), ","), LAMBDA l : {l[i] : i \in 1..Len(l)})

\* mutation of modes_recognized: one recognised mode is enough
modes_recognized_any(specified_modes) ==
  specified_modes \cap {grabbed_mode, ungrabbed_mode} # {}

\* not (specified_modes - {'grabbed', 'ungrabbed'})
modes_recognized(specified_modes) ==
  specified_modes \ {grabbed_mode, ungrabbed_mode} = {}

\* the orders in which iterating a frozenset can produce its elements
frozenset_iter(S) ==
  {o \in [1..Cardinality(S) -> S] : \A i, j \in 1..Cardinality(S) : i # j => o[i] # o[j]}

\* mutation of mouse_fan_out: the flag is computed as mode != 'grabbed'
mouse_fan_out_inverted(order, button, mods, count, paction) ==
  [i \in 1..Len(order) |-> MouseMapping(button, mods, count, order[i] # grabbed_mode, paction)]

\* the final for loop of parse_mouse_map, the set iterated in the order `order`
mouse_fan_out(order, button, mods, count, paction) ==
  [i \in 1..Len(order) |-> MouseMapping(button, mods, count, order[i] = grabbed_mode, paction)]

\* parse_mouse_map(val): the set of its possible outcomes, one per iteration
\* order of specified_modes; each with the MouseMappings yielded and the log
parse_mouse_map(val) ==
  With(split_ws(val, 3), LAMBDA parts :
    IF Len(parts) # 4
    THEN {[kind |-> "ok", out |-> <<>>, log |-> <<LogEntry("Ignoring invalid mouse action", val)>>]}
    ELSE
    LET xbutton == parts[1]
        event == parts[2]
        modes == parts[3]
        action == parts[4]
    IN
    With(split(xbutton, "+"), LAMBDA kparts :
    With(IF Len(kparts) > 1 THEN lower(kparts[Len(kparts)]) ELSE lower(parts[1]), LAMBDA obutton :
    With(IF Len(kparts) > 1 THEN parse_mods(SubSeq(kparts, 1, Len(kparts) - 1), obutton)
         ELSE [ret |-> Some(0), log |-> <<>>], LAMBDA pm :
      IF pm.ret = None THEN {[kind |-> "ok", out |-> <<>>, log |-> pm.log]}
      ELSE
      With(dict_get(mouse_button_aliases, obutton, obutton), LAMBDA b0 :
      With(<<"G", "L", "F", "W", "_", "M", "O", "U", "S", "E", "_", "B", "U", "T", "T", "O", "N", "_">>
             \o SubSeq(b0, 2, Len(b0)), LAMBDA attr :
        IF attr \notin DOMAIN defines
        THEN {[kind |-> "ok", out |-> <<>>,
               log |-> pm.log \o <<LogEntry("Mouse button not recognized, ignoring", xbutton)>>]}
        ELSE IF lower(event) \notin DOMAIN mouse_event_counts
        THEN {[kind |-> "ok", out |-> <<>>,
               log |-> pm.log \o <<LogEntry("Mouse event type not recognized, ignoring", event)>>]}
        ELSE
        With(specified_modes_of(modes), LAMBDA specified_modes :
          IF ~modes_recognized(specified_modes)
          THEN {[kind |-> "ok", out |-> <<>>,
                 log |-> pm.log \o <<LogEntry("Mouse modes not recognized, ignoring", modes)>>]}
          ELSE
          With(parse_key_action(action), LAMBDA pa :
            IF pa.kind = "raise"
            THEN {[kind |-> "ok", out |-> <<>>,
                   log |-> pm.log \o pa.log
                           \o <<LogEntry("Invalid mouse action. Ignoring.", action)>>]}
            ELSE IF pa.kind = "none"
            THEN {[kind |-> "ok", out |-> <<>>,
                   log |-> pm.log \o pa.log
                           \o <<LogEntry("Ignoring unknown mouse action", action)>>]}
            ELSE {[kind |-> "ok",
                   out |-> mouse_fan_out(order, defines[attr], pm.ret.val,
                                         mouse_event_counts[lower(event)], pa.val),
                   log |-> pm.log \o pa.log] : order \in frozenset_iter(specified_modes)}))))))))

---------------------------------------------------------------------------
(* The inputs the calls are made with *)

\* all sequences over S of length lo..hi
SeqsOf(S, lo, hi) == UNION {[1..k -> S] : k \in lo..hi}

\* modifier tokens: resolvable ones (aliased, mixed case, the placeholder),
\* NONE, an unknown name and the empty token
ModTokens ==
  {<<"c", "t", "r", "l">>, <<"S", "h", "i", "f", "t">>, <<"k", "i", "t", "t", "y", "_", "m", "o", "d">>,
   <<"n", "o", "n", "e">>, <<"a">>, <<>>}

\* key tokens: a letter in both cases, hex literals, a functional-key alias,
\* a name only the key-name lookup knows, an unknown name, the empty token
KeyTokens ==
  {<<"a">>, <<"A">>, <<"0", "x", "4", "1">>, <<"0", "x", "z", "z">>, <<"e", "s", "c">>,
   <<"a", "t">>, <<"z", "z">>, <<>>}

ModListInputs == SeqsOf(ModTokens, 0, MaxMods)

ShortcutInputs ==
  {join(m \o <<k>>, <<"+">>) : m \in ModListInputs, k \in KeyTokens}

\* values of the kitty_mod option
KittyModInputs ==
  {<<"c", "t", "r", "l", "+", "s", "h", "i", "f", "t">>,
   <<"k", "i", "t", "t", "y", "_", "m", "o", "d">>,
   <<"n", "o", "n", "e">>}

ActionInputs ==
  {<<"n", "e", "w", "_", "t", "a", "b">>,
   <<"k", "i", "t", "t", "e", "n", " ", "a", " ", "x">>,
   <<"g", "o", "t", "o", "_", "t", "a", "b", " ", "1">>,
   <<"g", "o", "t", "o", "_", "t", "a", "b", " ", "x">>,
   <<"f", "o", "o", " ", " ", "b", " ", "c", " ">>,
   <<" ">>,
   <<>>}

\* the shortcuts a generated map line is made of
MapSegTokens ==
  {<<"a">>,
   <<"c", "t", "r", "l", "+", "b">>,
   <<"k", "i", "t", "t", "y", "_", "m", "o", "d", "+", "e", "s", "c">>,
   <<"z", "z", "+", "a">>,
   <<"n", "o", "n", "e", "+", "a">>,
   <<"c", "t", "r", "l", "+", "z", "z">>,
   <<>>}

MapShortcutFields ==
  {e \o join(segs, <<">">>) \o e : segs \in SeqsOf(MapSegTokens, 1, MaxSegs), e \in {<<>>, <<">">>}}

MapInputs ==
  {sc \o <<" ">> \o a : sc \in MapShortcutFields, a \in ActionInputs} \cup MapShortcutFields

MouseButtonInputs ==
  {<<"l", "e", "f", "t">>,
   <<"c", "t", "r", "l", "+", "R", "i", "g", "h", "t">>,
   <<"k", "i", "t", "t", "y", "_", "m", "o", "d", "+", "m", "i", "d", "d", "l", "e">>,
   <<"b", "4">>,
   <<"z", "z", "+", "l", "e", "f", "t">>,
   <<"n", "o", "n", "e", "+", "l", "e", "f", "t">>,
   <<"l", "e", "f", "t", "y">>}

MouseEventInputs ==
  {<<"p", "r", "e", "s", "s">>, <<"C", "l", "i", "c", "k">>,
   <<"d", "o", "u", "b", "l", "e", "c", "l", "i", "c", "k">>, <<"d", "r", "a", "g">>}

MouseModeInputs ==
  {grabbed_mode, ungrabbed_mode,
   grabbed_mode \o <<",">> \o ungrabbed_mode,
   <<"G", "r", "a", "b", "b", "e", "d", ",">> \o grabbed_mode,
   grabbed_mode \o <<",", "f", "o", "o">>,
   ungrabbed_mode \o <<",">>}

MouseInputs ==
  {b \o <<" ">> \o e \o <<" ">> \o m \o <<"\t">> \o a :
     b \in MouseButtonInputs, e \in MouseEventInputs, m \in MouseModeInputs, a \in ActionInputs}

\* kitten_alias directives; a table is a dict built from some of them, its
\* items() in insertion order
KittenAliasInputs ==
  {<<"a", " ", "b", " ", "-", "q">>, <<"b", " ", "c">>}

AliasTables ==
  {t \in SeqsOf(UNION {{kitten_alias(v)[i] : i \in 1..Len(kitten_alias(v))} : v \in KittenAliasInputs}, 1, 2) :
     \A i, j \in 1..Len(t) : i # j => t[i].key # t[j].key}

---------------------------------------------------------------------------
(* The calls *)

Call(fn, arg) == [fn |-> fn, arg |-> arg]

CallParseMods ==
  /\ hist = <<>>
  /\ \E parts \in ModListInputs : \E r \in {parse_mods(parts, join(parts, <<"+">>))} :
       /\ hist' = <<Call("parse_mods", parts)>>
       /\ ret' = r.ret
       /\ log' = r.log
  /\ UNCHANGED <<out, pre>>

CallToModifiers ==
  /\ hist = <<>>
  /\ \E val \in {join(parts, <<"+">>) : parts \in ModListInputs \ {<<>>}} :
       /\ hist' = <<Call("to_modifiers", val)>>
       /\ ret' = Some(to_modifiers(val))
       /\ log' = parse_mods(split(val, "+"), val).log
  /\ UNCHANGED <<out, pre>>

CallParseShortcut ==
  /\ hist = <<>>
  /\ \E sc \in ShortcutInputs : \E r \in {parse_shortcut(sc)} :
       /\ hist' = <<Call("parse_shortcut", sc)>>
       /\ ret' = IF r.kind = "ok" THEN [kind |-> "ok", val |-> r.val]
                 ELSE [kind |-> "raise", exc |-> r.exc]
       /\ log' = r.log
  /\ UNCHANGED <<out, pre>>

CallParseKeyAction ==
  /\ hist = <<>>
  /\ \E action \in ActionInputs : \E r \in {parse_key_action(action)} :
       /\ hist' = <<Call("parse_key_action", action)>>
       /\ ret' = IF r.kind = "ok" THEN [kind |-> "ok", val |-> r.val]
                 ELSE IF r.kind = "none" THEN None
                 ELSE [kind |-> "raise", exc |-> r.exc]
       /\ log' = r.log
  /\ UNCHANGED <<out, pre>>

CallParseMap ==
  /\ hist = <<>>
  /\ \E val \in MapInputs : \E r \in {parse_map(val)} :
       /\ hist' = <<Call("parse_map", val)>>
       /\ ret' = IF r.kind = "raise" THEN [kind |-> "raise", exc |-> r.exc] ELSE [kind |-> "ok"]
       /\ out' = r.out
       /\ log' = r.log
  /\ pre' = <<>>

CallParseMouseMap ==
  /\ hist = <<>>
  /\ \E val \in MouseInputs : \E r \in parse_mouse_map(val) :
       /\ hist' = <<Call("parse_mouse_map", val)>>
       /\ ret' = IF r.kind = "raise" THEN [kind |-> "raise", exc |-> r.exc] ELSE [kind |-> "ok"]
       /\ out' = r.out
       /\ log' = r.log
  /\ pre' = <<>>

\* the config loader calls d.resolve(kitty_mod) on every definition
Resolve ==
  /\ out # <<>>
  /\ Len(hist) <= MaxSteps
  /\ \E v \in KittyModInputs : \E kitty_mod \in {to_modifiers(v)} :
       /\ hist' = Append(hist, Call("resolve", kitty_mod))
       /\ out' = [i \in 1..Len(out) |-> resolve(out[i], kitty_mod)]
  /\ pre' = out
  /\ log' = <<>>
  /\ UNCHANGED ret

\* the config loader calls d.resolve_kitten_aliases(aliases) on every definition
ResolveKittenAliases ==
  /\ out # <<>>
  /\ Len(hist) <= MaxSteps
  /\ \E aliases \in AliasTables :
       /\ hist' = Append(hist, Call("resolve_kitten_aliases", aliases))
       /\ out' = [i \in 1..Len(out) |-> resolve_kitten_aliases(out[i], aliases)]
  /\ pre' = out
  /\ log' = <<>>
  /\ UNCHANGED ret

\* the loader goes on to the next directive line
NextLine ==
  /\ hist # <<>>
  /\ hist' = <<>>
  /\ ret' = None
  /\ out' = <<>>
  /\ pre' = <<>>
  /\ log' = <<>>

---------------------------------------------------------------------------
Init ==
  /\ hist = <<>>
  /\ ret = None
  /\ out = <<>>
  /\ pre = <<>>
  /\ log = <<>>

Next ==
  \/ CallParseMods
  \/ CallToModifiers
  \/ CallParseShortcut
  \/ CallParseKeyAction
  \/ CallParseMap
  \/ CallParseMouseMap
  \/ Resolve
  \/ ResolveKittenAliases
  \/ NextLine

Spec == Init /\ [][Next]_vars

---------------------------------------------------------------------------
(* Vocabulary of the properties *)

\* the last call was the entry point fn, nothing has touched its result yet
Called(fn) == Len(hist) = 1 /\ hist[1].fn = fn

LastCall == hist[Len(hist)]

\* the modifier token m names a bit of the modifier table
Resolvable(m) ==
  (<<"G", "L", "F", "W", "_", "M", "O", "D", "_">> \o map_mod(upper(m))) \in DOMAIN defines

IsNoneToken(m) == upper(m) = <<"N", "O", "N", "E">>

BitOf(m) == defines[<<"G", "L", "F", "W", "_", "M", "O", "D", "_">> \o map_mod(upper(m))]

RECURSIVE SetSum(_)
SetSum(S) == IF S = {} THEN 0 ELSE With(CHOOSE x \in S : TRUE, LAMBDA x : x + SetSum(S \ {x}))

\* the OR of the bits of the resolvable tokens of parts: every modifier is a
\* single bit, so the OR is the sum of the distinct bits
MaskOfResolvable(parts) ==
  SetSum({BitOf(parts[i]) : i \in {j \in 1..Len(parts) : Resolvable(parts[j])}})

\* the '+'-pieces parse_shortcut works on
ShortcutPieces(sc) ==
  split(IF endswith(sc, <<"+">>) /\ Len(sc) > 1
        THEN SubSeq(sc, 1, Len(sc) - 1) \o <<"p", "l", "u", "s">> ELSE sc, "+")

HasPlaceholder(mods) == BitAnd(mods, GLFW_MOD_KITTY) # 0

\* the modifier masks of a yielded object
MasksOf(d) ==
  IF d.type = "key" THEN {d.trigger.mods} \cup {d.rest[i].mods : i \in 1..Len(d.rest)}
  ELSE {d.mods}

---------------------------------------------------------------------------
(* C1: parse_key_action on '<function-name> <remainder>' with no parser      *)
(* registered for the function name.                                         *)

C1_Case ==
  /\ Called("parse_key_action")
  /\ Len(split_ws(strip(hist[1].arg), 1)) = 2
  /\ split_ws(strip(hist[1].arg), 1)[1] \notin args_funcs

---------------------------------------------------------------------------
(* C2: parse_mods on token lists made of resolvable names and NONE.          *)

C2_Case ==
  /\ Called("parse_mods")
  /\ \A i \in 1..Len(hist[1].arg) : Resolvable(hist[1].arg[i]) \/ IsNoneToken(hist[1].arg[i])

\* C2 as claimed: the result is a mask, the OR of the bits of the resolvable
\* tokens, NONE adding nothing and never making the call fail
C2_Original == C2_Case => ret = Some(MaskOfResolvable(hist[1].arg))

\* C2, amended: parse_mods returns the OR of the bits only when every token
\* is resolvable; NONE is not: at the first token that is not resolvable the
\* call returns None, and a warning is logged unless that token is NONE.
\* to_modifiers turns the None into mask 0
C2_Amended ==
  /\ Called("parse_mods") =>
       With(hist[1].arg, LAMBDA parts :
         IF \A i \in 1..Len(parts) : Resolvable(parts[i])
         THEN ret = Some(MaskOfResolvable(parts)) /\ log = <<>>
         ELSE With(CHOOSE i \in 1..Len(parts) :
                     ~Resolvable(parts[i]) /\ \A j \in 1..(i - 1) : Resolvable(parts[j]),
                   LAMBDA i : /\ ret = None
                              /\ IsNoneToken(parts[i]) => log = <<>>
                              /\ ~IsNoneToken(parts[i]) => Len(log) = 1))
  /\ Called("to_modifiers") =>
       With(split(hist[1].arg, "+"), LAMBDA parts :
         ret = Some(IF \A i \in 1..Len(parts) : Resolvable(parts[i])
                    THEN MaskOfResolvable(parts) ELSE 0))

\* a resolvable token followed by NONE: None, silently
C2_Witness ==
  /\ C2_Case
  /\ Len(hist[1].arg) = 2
  /\ Resolvable(hist[1].arg[1])
  /\ IsNoneToken(hist[1].arg[2])
  /\ ret = None
  /\ log = <<>>

---------------------------------------------------------------------------
(* C3: no exception escapes a parse entry point.                             *)

EntryPoints == {"parse_mods", "parse_shortcut", "parse_key_action", "parse_map", "parse_mouse_map"}

\* C3 as claimed: whatever the input, none of the five entry points raises
C3_Original ==
  (hist # <<>> /\ Len(hist) = 1 /\ hist[1].fn \in EntryPoints) => ret.kind # "raise"

\* C3, amended: parse_mods, to_modifiers, parse_map and parse_mouse_map never
\* raise.  parse_shortcut raises InvalidMods, and nothing else, exactly when
\* the token has a modifier section in which some token does not resolve.
\* parse_key_action raises IndexError, and nothing else, exactly when the
\* text is empty or whitespace only
C3_Amended ==
  /\ (hist # <<>> /\ hist[1].fn \in {"parse_mods", "to_modifiers", "parse_map", "parse_mouse_map"})
       => ret.kind # "raise"
  /\ Called("parse_shortcut") =>
       With(ShortcutPieces(hist[1].arg), LAMBDA parts :
         /\ ret.kind = "raise" <=>
              (Len(parts) > 1 /\ \E i \in 1..(Len(parts) - 1) : ~Resolvable(parts[i]))
         /\ ret.kind = "raise" => ret.exc = "InvalidMods")
  /\ Called("parse_key_action") =>
       /\ ret.kind = "raise" <=> (\A i \in 1..Len(hist[1].arg) : isspace(hist[1].arg[i]))
       /\ ret.kind = "raise" => ret.exc = "IndexError"

\* the '>'-separated segments of the shortcut field of a map line
MapSegments(val) ==
  With(split_ws(val, 1), LAMBDA parts :
    IF Len(parts) # 2 THEN <<>>
    ELSE With(strip_chars(strip(parts[1]), sequence_sep), LAMBDA sc :
           IF sc = <<>> \/ strip(parts[2]) = <<>> THEN <<>> ELSE split(sc, sequence_sep)))

\* a map line one of whose shortcuts makes parse_shortcut raise: parse_map
\* ends normally and yields nothing
C3_Witness ==
  /\ Called("parse_map")
  /\ \E i \in 1..Len(MapSegments(hist[1].arg)) :
       parse_shortcut(MapSegments(hist[1].arg)[i]).kind = "raise"
  /\ ret.kind = "ok"
  /\ out = <<>>

---------------------------------------------------------------------------
(* C4: parse_map is all-or-nothing.                                          *)

---------------------------------------------------------------------------
(* C5: resolve and the placeholder bit.                                      *)

\* C5 as claimed: after resolve(p), for every p, no mask of the object holds
\* the placeholder bit, and a second resolve(p) changes nothing
C5_Original ==
  (Len(hist) >= 2 /\ LastCall.fn = "resolve") =>
    /\ \A i \in 1..Len(out) : \A m \in MasksOf(out[i]) : ~HasPlaceholder(m)
    /\ (hist[Len(hist) - 1].fn = "resolve" /\ hist[Len(hist) - 1].arg = LastCall.arg) => out = pre

\* C5, amended: a second resolve(p) changes nothing, for every p; after
\* resolve(p) no mask holds the placeholder bit provided p itself does not
\* hold it (a kitty_mod written as "kitty_mod" does)
C5_Amended ==
  (Len(hist) >= 2 /\ LastCall.fn = "resolve") =>
    /\ ~HasPlaceholder(LastCall.arg) =>
         \A i \in 1..Len(out) : \A m \in MasksOf(out[i]) : ~HasPlaceholder(m)
    /\ (hist[Len(hist) - 1].fn = "resolve" /\ hist[Len(hist) - 1].arg = LastCall.arg) => out = pre

\* resolve(ctrl+shift) twice on a sequence whose tail was written with the
\* placeholder: the tail's mask is exactly ctrl+shift
C5_Witness ==
  /\ Len(hist) = 3
  /\ hist[1].fn = "parse_map"
  /\ hist[2].fn = "resolve" /\ hist[2].arg = 5
  /\ hist[3].fn = "resolve" /\ hist[3].arg = 5
  /\ Len(out[1].rest) >= 1
  /\ \E i \in 1..Len(MapSegments(hist[1].arg)) :
       i >= 2 /\ HasPlaceholder(parse_shortcut(MapSegments(hist[1].arg)[i]).val.mods)
  /\ \E i \in 1..Len(out[1].rest) : out[1].rest[i].mods = 5

---------------------------------------------------------------------------
(* C6: the fan-out of parse_mouse_map over the grab modes.                   *)

\* the four fields of a mouse_map line are all good
ValidMouseLine(val) ==
  With(split_ws(val, 3), LAMBDA parts :
    /\ Len(parts) = 4
    /\ With(split(parts[1], "+"), LAMBDA kparts :
         /\ \A i \in 1..(Len(kparts) - 1) : Resolvable(kparts[i])
         /\ With(lower(kparts[Len(kparts)]), LAMBDA b :
              With(dict_get(mouse_button_aliases, b, b), LAMBDA b0 :
                (<<"G", "L", "F", "W", "_", "M", "O", "U", "S", "E", "_", "B", "U", "T", "T", "O", "N", "_">>
                   \o SubSeq(b0, 2, Len(b0))) \in DOMAIN defines)))
    /\ lower(parts[2]) \in DOMAIN mouse_event_counts
    /\ \A m \in specified_modes_of(parts[3]) : m \in {grabbed_mode, ungrabbed_mode}
    /\ parse_key_action(parts[4]).kind = "ok")

\* C6: a valid line yields one MouseMapping per distinct requested mode; the
\* mappings agree on button, mask, repeat-count and action, and the grabbed
\* flags are those of the modes: true for 'grabbed', false for 'ungrabbed'
C6_FanOut ==
  (Called("parse_mouse_map") /\ ValidMouseLine(hist[1].arg)) =>
    With(specified_modes_of(split_ws(hist[1].arg, 3)[3]), LAMBDA modes :
      /\ Len(out) = Cardinality(modes)
      /\ \A i, j \in 1..Len(out) :
           /\ out[i].button = out[j].button
           /\ out[i].mods = out[j].mods
           /\ out[i].repeat_count = out[j].repeat_count
           /\ out[i].action = out[j].action
           /\ i # j => out[i].grabbed # out[j].grabbed
      /\ {out[i].grabbed : i \in 1..Len(out)} = {m = grabbed_mode : m \in modes})

\* a line naming both modes yields two mappings, one grabbed, one not
C6_Witness ==
  /\ Called("parse_mouse_map")
  /\ ValidMouseLine(hist[1].arg)
  /\ Len(out) = 2
  /\ out[1].grabbed # out[2].grabbed
  /\ out[1].mods # 0

---------------------------------------------------------------------------
(* C7: resolve_kitten_aliases rewrites at most once.                         *)

\* C7: after one call the plugin name is the original argument[0] or the
\* first element of the expansion of the original argument[0]
C7_SingleRewrite ==
  (Len(hist) >= 2 /\ LastCall.fn = "resolve_kitten_aliases") =>
    \A i \in 1..Len(out) :
      pre[i].action.args # <<>> =>
        \/ out[i].action.args[1] = pre[i].action.args[1]
        \/ \E k \in 1..Len(LastCall.arg) :
             /\ StrArg(LastCall.arg[k].key) = pre[i].action.args[1]
             /\ out[i].action.args[1] = StrArg(LastCall.arg[k].expanded[1])

---------------------------------------------------------------------------
(* C8: parse_shortcut tells "no modifier section" from "failed section".     *)

\* C8: a token without modifier section gives a trigger with mask 0; a token
\* with one gives either a trigger whose mask is the non-zero OR of all its
\* modifier tokens, all of which resolve, or InvalidMods when one does not
C8_ModsOutcome ==
  Called("parse_shortcut") =>
    With(ShortcutPieces(hist[1].arg), LAMBDA parts :
      IF Len(parts) = 1 THEN ret.kind = "ok" /\ ret.val.mods = 0
      ELSE With(SubSeq(parts, 1, Len(parts) - 1), LAMBDA m :
             \/ /\ \A i \in 1..Len(m) : Resolvable(m[i])
                /\ ret.kind = "ok"
                /\ ret.val.mods = MaskOfResolvable(m)
                /\ ret.val.mods # 0
             \/ /\ \E i \in 1..Len(m) : ~Resolvable(m[i])
                /\ ret = [kind |-> "raise", exc |-> "InvalidMods"]))

\* a modifier section with a resolvable and an unknown token is refused
C8_Witness ==
  /\ Called("parse_shortcut")
  /\ Len(ShortcutPieces(hist[1].arg)) = 3
  /\ Resolvable(ShortcutPieces(hist[1].arg)[1])
  /\ ~Resolvable(ShortcutPieces(hist[1].arg)[2])
  /\ ret.kind = "raise"

---------------------------------------------------------------------------
(* C9: parse_mouse_map yields nothing for a line with a bad field.           *)

\* C9: no exception escapes parse_mouse_map, and a line that has not four
\* fields, or an unresolvable modifier, an unknown button, an unknown event
\* type, a grab mode other than grabbed / ungrabbed or an invalid action
\* yields no MouseMapping at all
C9_BadFieldYieldsNothing ==
  Called("parse_mouse_map") =>
    /\ ret.kind # "raise"
    /\ ~ValidMouseLine(hist[1].arg) => out = <<>>

\* only the grab modes are wrong: one recognised, one not
C9_Witness ==
  /\ Called("parse_mouse_map")
  /\ With(split_ws(hist[1].arg, 3), LAMBDA parts :
       /\ Len(parts) = 4
       /\ grabbed_mode \in specified_modes_of(parts[3])
       /\ ~modes_recognized(specified_modes_of(parts[3]))
       /\ ValidMouseLine(parts[1] \o <<" ">> \o parts[2] \o <<" ">> \o grabbed_mode
                         \o <<" ">> \o parts[4]))
  /\ out = <<>>
  /\ Len(log) = 1

---------------------------------------------------------------------------
(* C10: is_sequence and the tail of a KeyDefinition.                         *)

=============================================================================
